---------------------------- MODULE Spec2Model ----------------------------
(***************************************************************************)
(* Climb / descent / descent-approach trajectory integrators of            *)
(* aircraft_preformance.sim_climb_descent, with the airspeed, propulsion,  *)
(* pilot-control and equations-of-motion helpers they call, and the        *)
(* results-file cache of load_or_run_simulation.                           *)
(*                                                                         *)
(* Floating-point quantities are fixed-point integers:                     *)
(*   length            cm            speed        1e-4 m/s                 *)
(*   angle             1e-6 rad      force        N                        *)
(*   ratio, sin, C_L   1e-6          Mach         1e-3                     *)
(*   pressure ratios of the airspeed conversions      1e-8                *)
(*   pressure          Pa            density      1e-5 kg/m^3              *)
(*   temperature       0.01 K        fuel mass    g      time  s           *)
(* Every product is formed by MulDiv, which rounds to the nearest unit and *)
(* never leaves the 32-bit range of TLC's integers.                         *)
(***************************************************************************)
EXTENDS Integers, Sequences, FiniteSets, TLC

(***************************************************************************)
(* Fixed-point arithmetic                                                  *)
(***************************************************************************)
Unit == 10^6

MaxInt == 2147483646 + 1

Abs(a) == IF a < 0 THEN -a ELSE a

Sgn(a) == IF a < 0 THEN -1 ELSE 1

Max(a, b) == IF a >= b THEN a ELSE b

Min(a, b) == IF a >= b THEN b ELSE a

\* <<q, rr>> brought to <<quotient, remainder>> modulo c
QRNorm(q, rr, c) == <<q + rr \div c, rr % c>>

\* one digit of the long multiplication: high = <<q, r>> of the higher digits
QRStep(high, a, digit, c, B) ==
    QRNorm(B * high[1] + digit * (a \div c), B * high[2] + digit * (a % c), c)

\* <<q, r>> with a*b = q*c + r and 0 <= r < c, for a, b >= 0: long
\* multiplication over the digits of b in base B, where 2*B*c <= MaxInt
RECURSIVE MulDivQR(_, _, _, _)
MulDivQR(a, b, c, B) ==
    IF b = 0 THEN <<0, 0>>
    ELSE QRStep(MulDivQR(a, b \div B, c, B), a, b % B, c, B)

RoundQR(qr, c) == qr[1] + (IF 2 * qr[2] >= c THEN 1 ELSE 0)

\* round(a*b/c) for a, b > 0 and 4*c <= MaxInt
MulDivNat(a, b, c) ==
    IF b <= (MaxInt - c) \div a
    THEN (a * b + c \div 2) \div c
    ELSE RoundQR(MulDivQR(Max(a, b), Min(a, b), c, MaxInt \div (2 * c)), c)

\* round(a*b/c), c > 0, any signs of a and b
MulDiv(a, b, c) ==
    IF a = 0 \/ b = 0 THEN 0 ELSE Sgn(a) * Sgn(b) * MulDivNat(Abs(a), Abs(b), c)

\* np.round of n/m (n >= 0): ties go to the even neighbour
RoundHalfEven(n, m) ==
    LET q == n \div m
        r == n % m
    IN  IF 2 * r > m \/ (2 * r = m /\ q % 2 = 1) THEN q + 1 ELSE q

RECURSIVE IsqrtIter(_, _)
IsqrtIter(n, y) ==
    LET y2 == (y + n \div y) \div 2
    IN  IF y2 >= y THEN y ELSE IsqrtIter(n, y2)

\* floor(sqrt(n))
Isqrt(n) ==
    IF n <= 0 THEN 0
    ELSE IF n < 1024 THEN IsqrtIter(n, 32)
    ELSE IF n < 65536 THEN IsqrtIter(n, 256)
    ELSE IF n < 4194304 THEN IsqrtIter(n, 2048)
    ELSE IF n < 67108864 THEN IsqrtIter(n, 8192)
    ELSE IsqrtIter(n, 65536)

\* one Newton step of y*y = x * Unit
SqrtNewton(x, y) == (y + MulDiv(x, Unit, y)) \div 2

\* np.sqrt of a ratio: sqrt(x / Unit) * Unit
SqrtU(x) ==
    IF x <= 0 THEN 0 ELSE SqrtNewton(x, SqrtNewton(x, Isqrt(x) * 1000))

\* the unit of the pressure ratios of helpers/airspeed.py: 1e-8
Fine == 10^8

\* floor(sqrt(n)) brought to the nearest integer to sqrt(n)
NearestRoot(n, r) == IF n - r * r > r THEN r + 1 ELSE r

\* one Newton step of y*y = x * Fine
SqrtFineNewton(x, y) == (y + MulDiv(x, Fine, y)) \div 2

\* sqrt(x / Fine) * Fine
SqrtFine(x) ==
    IF x <= 0 THEN 0
    ELSE SqrtFineNewton(x, SqrtFineNewton(x, Isqrt(x) * 10000))

\* np.power(x, g_r) with g_r = gamma / (gamma - 1) = 3.5
Pow35(x) ==
    IF x <= 0 THEN 0
    ELSE MulDiv(MulDiv(MulDiv(x, x, Fine), x, Fine), SqrtFine(x), Fine)

RECURSIVE Root35Iter(_, _, _)
Root35Next(x, y, y2, n) ==
    IF n = 0 \/ Abs(y2 - y) <= 1 THEN y2 ELSE Root35Iter(x, y2, n - 1)

Root35Iter(x, y, n) ==
    Root35Next(x, y, (5 * y + 2 * MulDiv(x, y, Pow35(y))) \div 7, n)

\* np.power(x, 1 / g_r): Newton's iteration on y^3.5 = x
Root35(x) ==
    IF x <= 0 THEN 0
    ELSE Root35Iter(x, Max(1, Fine + (2 * (x - Fine)) \div 7), 40)

Pi == 3141593

\* sin(x)/x as a polynomial in x2 = x*x, for x in [-pi/2, pi/2]
SinHorner(x2) ==
    Unit - MulDiv(x2,
                  Unit - MulDiv(x2,
                                Unit - MulDiv(x2, Unit - x2 \div 72, 42 * Unit),
                                20 * Unit),
                  6 * Unit)

SinR(x) == MulDiv(x, SinHorner(MulDiv(x, x, Unit)), Unit)

\* an angle of (-pi, pi] brought to the one of [-pi/2, pi/2] with the same sine
SinFold(r) ==
    IF r > Pi \div 2 THEN Pi - r
    ELSE IF r < -(Pi \div 2) THEN -Pi - r
    ELSE r

\* np.sin
Sin(a) == SinR(SinFold(((a + Pi) % (2 * Pi)) - Pi))

\* np.cos
Cos(a) == Sin(a + Pi \div 2)

RECURSIVE AsinIter(_, _, _)
AsinIter(s, lo, hi) ==
    IF hi - lo <= 1 THEN lo
    ELSE LET mid == (lo + hi) \div 2
         IN  IF Sin(mid) <= s THEN AsinIter(s, mid, hi) ELSE AsinIter(s, lo, mid)

\* np.arcsin
Asin(s) == AsinIter(s, -(Pi \div 2), Pi \div 2)

(***************************************************************************)
(* International Standard Atmosphere (ambiance.Atmosphere): values on a    *)
(* 1000 m grid from -5000 m to 21000 m, interpolated linearly              *)
(***************************************************************************)
TemperatureTable ==
    <<32068, 31417, 30766, 30115, 29465, 28815, 28165, 27515, 26866, 26217,
      25568, 24919, 24270, 23622, 22973, 22325, 21677, 21665, 21665, 21665,
      21665, 21665, 21665, 21665, 21665, 21665, 21758>>

PressureTable ==
    <<177762, 159598, 142973, 127783, 113931, 101325, 89876, 79501, 70121,
      61660, 54048, 47218, 41105, 35652, 30801, 26500, 22700, 19399, 16580,
      14170, 12112, 10353, 8850, 7565, 6467, 5529, 4729>>

DensityTable ==
    <<193112, 176973, 161891, 147816, 134702, 122500, 111166, 100655, 90925,
      81935, 73643, 66011, 59002, 52579, 46706, 41351, 36480, 31194, 26660,
      22786, 19475, 16647, 14230, 12165, 10400, 8891, 7571>>

SpeedOfSoundTable ==
    <<35899, 35532, 35163, 34789, 34411, 34029, 33643, 33253, 32858, 32459,
      32055, 31645, 31231, 30811, 30385, 29953, 29515, 29507, 29507, 29507,
      29507, 29507, 29507, 29507, 29507, 29507, 29570>>

\* the value at h between the grid points k and k + 1 (k counted from -5000 m)
InterpAt(tab, h, k) ==
    tab[k + 1] + MulDiv(tab[k + 2] - tab[k + 1], h + 500000 - k * 100000, 100000)

Interp(tab, h) == InterpAt(tab, h, Max(0, Min(25, (h + 500000) \div 100000)))

\* Atmosphere(h) raises ValueError outside -5004 m .. 81020 m
AtmosphereOK(h) == h >= -500400 /\ h <= 8102000

\* Atmosphere(h).temperature, .pressure, .density, .speed_of_sound
Temperature(h) == Interp(TemperatureTable, h)

Pressure(h) == Interp(PressureTable, h)

Density(h) == Interp(DensityTable, h)

SpeedOfSound(h) == Interp(SpeedOfSoundTable, h) * 100

(***************************************************************************)
(* helpers/airspeed.py                                                     *)
(***************************************************************************)
\* p2 - 1 = (1 + (rho/p) v^2 / (2 g_r))^g_r - 1
ImpactRatio(rho, p, v) ==
    Pow35(Fine + MulDiv(MulDiv(rho, v, 1000), v, 700 * p)) - Fine

\* (1 + (p_from/p_to) * impact)^(1/g_r) - 1
StaticRatio(p_from, p_to, impact) ==
    Root35(Fine + MulDiv(MulDiv(p_from, Fine, p_to), impact, Fine)) - Fine

\* 2 g_r (p/rho) x in (0.01 m/s)^2
SpeedSquared(p, rho, x) == MulDiv(MulDiv(7 * p, 100000, rho), x, 10000)

\* sqrt(2 g_r (p/rho) x), rounded to 2 decimals
SpeedFromImpact(p, rho, x) ==
    IF x <= 0 THEN 0
    ELSE NearestRoot(SpeedSquared(p, rho, x), Isqrt(SpeedSquared(p, rho, x))) * 100

cas2tas(v_cas, h) ==
    SpeedFromImpact(Pressure(h), Density(h),
                    StaticRatio(Pressure(0), Pressure(h),
                                ImpactRatio(Density(0), Pressure(0), v_cas)))

cas2mach(v_cas, h) == MulDiv(cas2tas(v_cas, h), 1000, SpeedOfSound(h))

\* the equivalent airspeed v_tas * sqrt(rho_at_h / rho_at_sl), which leaves out
\* the compressibility terms p1, p2 and p3
tas2casEquivalent(v_tas, h) ==
    RoundHalfEven(MulDiv(v_tas, SqrtU(MulDiv(Density(h), Unit, Density(0))), Unit),
                  100) * 100

tas2cas(v_tas, h) ==
    SpeedFromImpact(Pressure(0), Density(0),
                    StaticRatio(Pressure(h), Pressure(0),
                                ImpactRatio(Density(h), Pressure(h), v_tas)))

tas2mach(v_tas, h) == MulDiv(v_tas, 1000, SpeedOfSound(h))

(***************************************************************************)
(* sim_climb_descent/const.py                                              *)
(***************************************************************************)
\* gravitational acceleration, 1e-5 m/s^2
Grav_const == 980665

\* wing area, m^2
S == 500

\* maximum sea-level thrust of a single engine, N
Max_Thrust_SE_SL == 270000

BPR == 5

(***************************************************************************)
(* helpers/aerodynamics.py                                                 *)
(***************************************************************************)
\* (1/2) rho S v^2, N
HalfRhoSV2(rho, wing_area, v_tas) ==
    MulDiv(MulDiv(MulDiv(rho, v_tas, 100000), v_tas, 100000), wing_area, 2000)

\* lift coefficient of steady flight (lift = weight), rounded to 4 decimals
c_l_steady(v_cas, altitude, weight, wing_area) ==
    MulDiv(weight, 10000,
           HalfRhoSV2(Density(altitude), wing_area, cas2tas(v_cas, altitude))) * 100

(***************************************************************************)
(* sim_climb_descent/aerodynamic_char.py: drag polar and trim state        *)
(***************************************************************************)
\* zero-lift drag coefficient and induced-drag factor of the parabolic polar;
\* the module is not among the sources, the values are those of a typical
\* transport aircraft
C_D0 == 20000

K_induced == 45000

drag(v_cas, h, c_l, wing_area) ==
    MulDiv(HalfRhoSV2(Density(h), wing_area, cas2tas(v_cas, h)),
           C_D0 + MulDiv(MulDiv(c_l, c_l, Unit), K_induced, Unit), Unit)

\* angle of attack at which 0.03 + 4.4 aoa equals the steady lift coefficient
aoa_steady_staight(v_cas, h, w, wing_area) ==
    MulDiv(c_l_steady(v_cas, h, w, wing_area) - 30000, 10, 44)

gamma_steady_straight(thrust, drag_force, w) ==
    Asin(MulDiv(thrust - drag_force, Unit, w))

(***************************************************************************)
(* sim_climb_descent/thrust_model.py                                       *)
(***************************************************************************)
\* a with the constant term 0.0427 in place of 0.0472
LapseAMistyped(d, d2) ==
    MulDiv(13855, d, 10000) - MulDiv(4327, d2, 10000) + MulDiv(427, Unit, 10000)

\* a = -0.4327 d^2 + 1.3855 d + 0.0472
LapseA(d, d2) ==
    MulDiv(13855, d, 10000) - MulDiv(4327, d2, 10000) + MulDiv(472, Unit, 10000)

\* x = 0.9106 d^3 - 1.7736 d^2 + 1.8697 d
LapseX(d, d2, d3) ==
    MulDiv(9106, d3, 10000) - MulDiv(17736, d2, 10000) + MulDiv(18697, d, 10000)

\* z = 0.1377 d^3 - 0.4374 d^2 + 1.3003 d
LapseZ(d, d2, d3) ==
    MulDiv(1377, d3, 10000) - MulDiv(4374, d2, 10000) + MulDiv(13003, d, 10000)

\* temp_term_1 = 0.377 (1 + bpr) / sqrt((1 + 0.82 bpr) g_0) * z * mach
TempTerm1(bpr, z, mach) ==
    MulDiv(MulDiv(z, mach, 1000), 377 * (1 + bpr) * 1000,
           SqrtU(MulDiv((6375 + 604 * bpr) * 100, (100 + 82 * bpr) * 10000, Unit)))

\* temp_term_2 = (0.23 + 0.19 sqrt(bpr)) * x * mach^2
TempTerm2(bpr, x, mach) ==
    MulDiv(MulDiv(MulDiv(230000 + MulDiv(19, SqrtU(bpr * Unit), 100), x, Unit),
                  mach, 1000), mach, 1000)

\* thrust_max_h for the pressure ratio d = p_h / p_sl and its powers
ThrustLapse(thrust_max_sl, bpr, mach, d, d2, d3) ==
    MulDiv(LapseA(d, d2) - TempTerm1(bpr, LapseZ(d, d2, d3), mach)
               + TempTerm2(bpr, LapseX(d, d2, d3), mach),
           thrust_max_sl, Unit)

ThrustLapse2(thrust_max_sl, bpr, mach, d, d2) ==
    ThrustLapse(thrust_max_sl, bpr, mach, d, d2, MulDiv(d2, d, Unit))

ThrustLapse1(thrust_max_sl, bpr, mach, d) ==
    ThrustLapse2(thrust_max_sl, bpr, mach, d, MulDiv(d, d, Unit))

max_thrust_model(thrust_max_sl, bpr, h, mach) ==
    ThrustLapse1(thrust_max_sl, bpr, mach, MulDiv(Pressure(h), Unit, Pressure(0)))

\* fuel flow in g/s: c_t * thrust with c_t = 11 (1 + mach) sqrt(theta) mg/s/N
fuel_flow(thrust, mach, h) ==
    MulDiv(MulDiv(MulDiv(thrust, 11 * (1000 + mach), 1000),
                  SqrtU(MulDiv(Temperature(h), Unit, Temperature(0))), Unit),
           1, 1000)

(***************************************************************************)
(* sim_climb_descent/eom.py                                                *)
(***************************************************************************)
\* dv/dt in 1e-4 m/s^2 (the code rounds to 4 decimals)
inst_dv_dt(thrust, drag_force, w, gamma) ==
    MulDiv(thrust - drag_force - MulDiv(w, Sin(gamma), Unit), Grav_const, 10 * w)

\* dgamma/dt in 1e-6 rad/s
inst_dgamma_dt(lift, w, v_tas) ==
    MulDiv(MulDiv(lift - w, Grav_const * 10, w), 10000, v_tas)

(***************************************************************************)
(* sim_climb_descent/pilot_control.py                                      *)
(***************************************************************************)
\* tas2cas(cruise_mach * v_sound, h)
MachTargetCas(cruise_mach, h) ==
    tas2cas(MulDiv(cruise_mach, SpeedOfSound(h), 1000), h)

\* variant of SpeedError: the Mach number of the climb is compared as it is,
\* without np.round(..., 2)
SpeedErrorUnrounded(v_ref, v_ias, h, cruise_mach, phase) ==
    IF phase = "climb"
    THEN IF cas2mach(v_ias, h) < cruise_mach
         THEN v_ias - v_ref
         ELSE v_ias - MachTargetCas(cruise_mach, h)
    ELSE IF RoundHalfEven(v_ias, 10000) * 10000 < v_ref
         THEN v_ias - MachTargetCas(cruise_mach, h)
         ELSE v_ias - v_ref

\* variant of SpeedError: the two targets of the descent are exchanged
SpeedErrorExchanged(v_ref, v_ias, h, cruise_mach, phase) ==
    IF phase = "climb"
    THEN IF RoundHalfEven(cas2mach(v_ias, h), 10) * 10 < cruise_mach
         THEN v_ias - v_ref
         ELSE v_ias - MachTargetCas(cruise_mach, h)
    ELSE IF RoundHalfEven(v_ias, 10000) * 10000 < v_ref
         THEN v_ias - v_ref
         ELSE v_ias - MachTargetCas(cruise_mach, h)

\* v_error of the phase: IAS against v_ref or against the CAS of cruise Mach
SpeedError(v_ref, v_ias, h, cruise_mach, phase) ==
    IF phase = "climb"
    THEN IF RoundHalfEven(cas2mach(v_ias, h), 10) * 10 < cruise_mach
         THEN v_ias - v_ref
         ELSE v_ias - MachTargetCas(cruise_mach, h)
    ELSE IF RoundHalfEven(v_ias, 10000) * 10000 < v_ref
         THEN v_ias - MachTargetCas(cruise_mach, h)
         ELSE v_ias - v_ref

\* k_p in 1e-4 rad per m/s, cruise_mach in 1e-3
pilot_pitch_control(k_p, theta_trim, v_ref, v_ias, h, cruise_mach, phase) ==
    MulDiv(SpeedError(v_ref, v_ias, h, cruise_mach, phase), k_p, 100) + theta_trim

(***************************************************************************)
(* sim_climb_descent/simulation.py: state                                  *)
(***************************************************************************)
VARIABLES
    kwargs,           \* the arguments of the call under way
    files,            \* directory simulation_results: file key -> stored results
    pc,               \* position of the call
    t, x, h, w, m_f_burnt, v_tas, v_ias, mach, gamma,   \* integrator state
    theta_trim, thrust_app_perc,
    theta, aoa, c_l, inst_lift, inst_thrust, inst_drag, \* locals of the iteration
    res,              \* result dictionary of lists
    result,           \* value returned to the caller
    exc,              \* exception that ended the call, "" if none
    file_reads, file_writes, sim_calls,   \* file reads, file writes, simulation invocations
    flows,            \* history: what fuel_flow returned in each loop iteration so far
    procs,            \* runs executing at the same time: process -> its position
    directory         \* the working directory those runs share

locals == <<t, x, h, w, m_f_burnt, v_tas, v_ias, mach, gamma,
            theta, aoa, c_l, inst_lift, inst_thrust, inst_drag>>

vars == <<kwargs, files, pc, t, x, h, w, m_f_burnt, v_tas, v_ias, mach, gamma,
          theta_trim, thrust_app_perc, theta, aoa, c_l, inst_lift, inst_thrust,
          inst_drag, res, result, exc,
          file_reads, file_writes, sim_calls, flows, procs, directory>>

\* the state of runs executing at the same time
shared == <<procs, directory>>

(***************************************************************************)
(* Bounds of the model                                                     *)
(***************************************************************************)
\* loop iterations followed per run
MaxSteps == 40

\* the iterations explored of the climb from sea level to the cruise Mach number
MaxClimbSteps == 400

(***************************************************************************)
(* Inputs                                                                  *)
(***************************************************************************)
ValidPhases == {"climb", "descent", "descent_approach"}

\* initial conditions: x, h in cm, w in N, v_ias in 1e-4 m/s
IcsTopOfClimb == [x |-> 0, h |-> 995000, w |-> 3000000, v_ias |-> 1500000]

IcsLowDescent == [x |-> 0, h |-> 110000, w |-> 3000000, v_ias |-> 1300000]

IcsSeaLevel == [x |-> 0, h |-> 0, w |-> 3600000, v_ias |-> 1300000]

IcsFinal == [x |-> 0, h |-> 5000, w |-> 2000000, v_ias |-> 700000]

IcsBelowScreen == [x |-> 0, h |-> 1000, w |-> 2000000, v_ias |-> 700000]

\* above the altitude at which a climb stops
IcsAboveCruise == [x |-> 0, h |-> 1005000, w |-> 3000000, v_ias |-> 1500000]

\* at the altitude at which a climb stops, too heavy to climb at 130 m/s
IcsHeavyAtCruise == [x |-> 0, h |-> 1000000, w |-> 5000000, v_ias |-> 1300000]

\* below the altitude at which a descent stops
IcsBelowDescentStop == [x |-> 0, h |-> 90000, w |-> 3000000, v_ias |-> 1300000]

\* 170 m/s at sea level: Mach 0.5
IcsMachHalf == [x |-> 0, h |-> 0, w |-> 3000000, v_ias |-> 1700000]

Call(e, sim, ph, ic, dt, vr, gs) ==
    [entry |-> e, simulation |-> sim, phase |-> ph, ics |-> ic, time_step |-> dt,
     k_p |-> 50, v_ref |-> vr, cruise_mach |-> 850, glideslope_angle |-> gs,
     screen_h |-> 1067]

EulerCalls ==
    { Call("direct", "simulation_euler", ph, ic, dt, ic.v_ias, 3) :
        ph \in {"climb", "descent", "cruise"},
        ic \in {IcsTopOfClimb, IcsLowDescent}, dt \in {0, 1, 2} }
    \cup
    { Call("direct", "simulation_euler", ph, IcsTopOfClimb, 1, 1300000, 3) :
        ph \in {"climb", "descent"} }
    \cup
    { Call("direct", "simulation_euler", "climb", IcsSeaLevel, 1, 5000000, 3),
      Call("direct", "simulation_euler", "descent", IcsLowDescent, 3000, 1300000, 3),
      Call("direct", "simulation_euler", "descent", IcsTopOfClimb, 2, 1600000, 3),
      Call("direct", "simulation_euler", "climb", IcsAboveCruise, 1, 1500000, 3),
      Call("direct", "simulation_euler", "climb", IcsHeavyAtCruise, 1, 1300000, 3),
      Call("direct", "simulation_euler", "descent", IcsBelowDescentStop, 1, 1300000,
           3) }

\* the climb from Mach 0.5 at sea level towards v_ref = 200 m/s (Mach 0.59 at
\* sea level) and on to the cruise Mach number, in steps of 2 s
ClimbCalls ==
    { Call("direct", "simulation_euler", "climb", IcsMachHalf, 2, 2000000, 3) }

\* the iterations of the loop that the model follows for a call
StepBound(call) == IF call \in ClimbCalls THEN MaxClimbSteps ELSE MaxSteps

ApproachCalls ==
    { Call("direct", "simulation_descent_approach_euler", "descent_approach",
           ic, dt, 700000, gs) :
        ic \in {IcsFinal, IcsBelowScreen}, dt \in {0, 1, 2}, gs \in {3, 6, 30} }
    \cup
    { Call("direct", "simulation_descent_approach_euler", "descent_approach",
           ic, 150, 700000, 30) : ic \in {IcsFinal, IcsBelowScreen} }

LoadOrRunCalls ==
    { Call("load_or_run_simulation", "simulation_euler", ph, IcsTopOfClimb, 2,
           1500000, 3) :
        ph \in {"climb", "descent", "cruise", ""} }
    \cup
    { Call("load_or_run_simulation", "simulation_descent_approach_euler", ph,
           IcsFinal, 2, 700000, 3) :
        ph \in {"descent_approach", "landing"} }

\* direct calls of fuel_flow(thrust, mach, h)
FuelFlowCalls ==
    { [entry |-> "fuel_flow", thrust |-> th, mach |-> m, h |-> alt] :
        th \in {-58673, 0, 45000, 1026000}, m \in {0, 206, 850},
        alt \in {-600000, 0, 5000, 1000000} }

\* direct calls of max_thrust_model(thrust_max_sl, bpr, h, mach)
MaxThrustCalls ==
    { [entry |-> "max_thrust_model", thrust_max_sl |-> th, bpr |-> b,
       mach |-> m, h |-> alt] :
        th \in {1, 100000, Max_Thrust_SE_SL}, b \in {5, 8}, m \in {0, 500, 850},
        alt \in {-600000, 0, 500000, 1000000} }

\* calibrated airspeeds from 30 m/s to 201.3 m/s, on and off the 0.01 m/s grid
RoundTripSpeeds ==
    {300000 + 171300 * i : i \in 0..10}
        \cup {700000, 999950, 1234500, 1234567, 1300000, 1500000}

\* calls tas2cas(cas2tas(v_cas, h), h)
RoundTripCalls ==
    { [entry |-> "cas2tas", v_cas |-> v, h |-> alt] :
        v \in RoundTripSpeeds,
        alt \in {-600000, -200000, 0, 5000, 110000, 555500, 995000, 1100000} }

Calls ==
    EulerCalls \cup ApproachCalls \cup LoadOrRunCalls \cup FuelFlowCalls
        \cup MaxThrustCalls \cup RoundTripCalls

SimulationEntries == {"direct", "load_or_run_simulation"}

(***************************************************************************)
(* serialize_and_write_results_file and the file key                       *)
(***************************************************************************)
\* f"{phase}_{int(np.round(w_initial.to('N').m))}_{int(np.round(v_ref.to('m/s').m))}"
FileKey(phase, w_initial, v_ref) ==
    <<phase, RoundHalfEven(w_initial, 1), RoundHalfEven(v_ref, 10000)>>

\* variant of serialize_and_write_results_file: nothing is written
serialize_without_write(dir, r, w_initial, v_ref, phase) == dir

\* the directory after the file of this key has been (over)written
serialize_and_write_results_file(dir, r, w_initial, v_ref, phase) ==
    LET key == FileKey(phase, w_initial, v_ref)
    IN  [k \in DOMAIN dir \cup {key} |-> IF k = key THEN r ELSE dir[k]]

\* a results file left by an earlier run
StoredResult == [t |-> <<0, 1>>, h |-> <<999000, 1000200>>]

\* the directory before the call: empty, or holding a file under the call's key
InitialFiles(call) ==
    IF call.entry \in SimulationEntries
    THEN { <<>>,
           [k \in {FileKey(call.phase, call.ics.w, call.v_ref)} |-> StoredResult] }
    ELSE { <<>> }

(***************************************************************************)
(* Init                                                                    *)
(***************************************************************************)
Init ==
    /\ kwargs \in Calls
    /\ files \in InitialFiles(kwargs)
    /\ pc = IF kwargs.entry = "direct" THEN kwargs.simulation ELSE kwargs.entry
    /\ t = 0 /\ x = 0 /\ h = 0 /\ w = 0 /\ m_f_burnt = 0
    /\ v_tas = 0 /\ v_ias = 0 /\ mach = 0 /\ gamma = 0
    /\ theta_trim = 0 /\ thrust_app_perc = 0
    /\ theta = 0 /\ aoa = 0 /\ c_l = 0
    /\ inst_lift = 0 /\ inst_thrust = 0 /\ inst_drag = 0
    /\ res = <<>>
    /\ result = <<>>
    /\ exc = ""
    /\ file_reads = 0 /\ file_writes = 0 /\ sim_calls = 0
    /\ flows = <<>>
    /\ procs = <<>>
    /\ directory = <<>>

(***************************************************************************)
(* simulation_euler                                                        *)
(***************************************************************************)
\* altitude thresholds of the stop condition, cm
ClimbStopAltitude == 1000000

DescentStopAltitude == 100000

\* c_l = 0.03 + (4.4 * aoa)
LiftCoeff(alpha) == 30000 + MulDiv(alpha, 44, 10)

\* variant of AngleOfAttack: the flight-path angle is added to the pitch
AngleOfAttackSum(pitch, g) == pitch + g

\* line 146: aoa = theta - gamma
AngleOfAttack(pitch, g) == pitch - g

\* variant of ThrustAppPerc: the climb fraction in every phase
ThrustAppPercFull(phase) == 95

\* thrust_app_perc, in percent
ThrustAppPerc(phase) == IF phase = "climb" THEN 95 ELSE 5

\* total thrust of 4 engines at the applied percentage
AppliedThrust(alt, m, perc) ==
    MulDiv(4 * max_thrust_model(Max_Thrust_SE_SL, BPR, alt, m), perc, 100)

\* distance covered in dt at speed v along a direction cosine c (1e-6), cm
Travel(v, c, dt) == MulDiv(MulDiv(v, c, Unit), dt, 100)

\* dm = -fuel_flow(inst_thrust, mach, h) * dt
FuelMassChange(flow, dt) == -flow * dt

\* dw = dm * Grav_const, N for dm in g
WeightChange(dm) == MulDiv(dm, Grav_const, 10^8)

\* seq[-1]
Last(seq) == seq[Len(seq)]

\* variant of TimeAdvance: the clock is not advanced
TimeAdvanceStuck(now, dt) == now

\* t += dt
TimeAdvance(now, dt) == now + dt

\* variant of FuelBurnt: "=" in place of "+="
FuelBurntOverwrite(burnt, dm) == Abs(dm)

\* variant of FuelBurnt: a sign slip, "-=" in place of "+="
FuelBurntSubtract(burnt, dm) == burnt - Abs(dm)

\* variant of FuelBurnt: the mass change is added as it is, without np.abs
FuelBurntSigned(burnt, dm) == burnt + dm

\* m_f_burnt += np.abs(dm)
FuelBurnt(burnt, dm) == burnt + Abs(dm)

\* variant of EulerStop: only a climb has a stop condition
EulerStopClimbOnly(phase, alt) == phase = "climb" /\ alt >= ClimbStopAltitude

\* variant of EulerStop: the conditions of the two phases are exchanged
EulerStopExchanged(phase, alt) ==
    \/ phase = "climb" /\ alt <= DescentStopAltitude
    \/ phase = "descent" /\ alt >= ClimbStopAltitude

\* the stop condition of the loop (match phase)
EulerStop(phase, alt) ==
    \/ phase = "climb" /\ alt >= ClimbStopAltitude
    \/ phase = "descent" /\ alt <= DescentStopAltitude

Raise(kind) ==
    /\ pc' = "raised"
    /\ exc' = kind
    /\ UNCHANGED <<shared, kwargs, files, locals, theta_trim, thrust_app_perc, res, result,
                   file_reads, file_writes, sim_calls, flows>>

\* lines 102-137: the state and the result dictionary at t = 0
simulation_euler_init ==
    /\ pc = "simulation_euler"
    /\ IF ~AtmosphereOK(kwargs.ics.h)
       THEN Raise("ValueError")
       ELSE LET ics == kwargs.ics
            IN  /\ t' = 0
                /\ x' = ics.x
                /\ h' = ics.h
                /\ w' = ics.w
                /\ m_f_burnt' = 0
                /\ v_ias' = ics.v_ias
                /\ v_tas' = cas2tas(ics.v_ias, ics.h)
                /\ mach' = cas2mach(ics.v_ias, ics.h)
                /\ aoa' = aoa_steady_staight(ics.v_ias, ics.h, ics.w, S)
                /\ thrust_app_perc' = ThrustAppPerc(kwargs.phase)
                /\ inst_thrust' = AppliedThrust(ics.h, mach', thrust_app_perc')
                /\ c_l' = c_l_steady(ics.v_ias, ics.h, ics.w, S)
                /\ inst_drag' = drag(ics.v_ias, ics.h, c_l', S)
                /\ gamma' = gamma_steady_straight(inst_thrust', inst_drag', ics.w)
                /\ theta_trim' = aoa' + gamma'
                /\ theta' = theta_trim'
                /\ res' = [t |-> <<0>>, x |-> <<ics.x>>, h |-> <<ics.h>>,
                           v_tas |-> <<v_tas'>>, v_ias |-> <<ics.v_ias>>,
                           mach |-> <<mach'>>, gamma |-> <<gamma'>>,
                           fuel_burn |-> <<0>>, aoa |-> <<aoa'>>,
                           theta |-> <<theta_trim'>>]
                /\ pc' = "euler_loop"
                /\ UNCHANGED <<shared, kwargs, files, inst_lift, result, exc, file_reads,
                               file_writes, sim_calls, flows>>

\* variant of simulation_euler_step: dh is computed after v_tas += dv_tas, from
\* the updated true airspeed
simulation_euler_step_staggered ==
    /\ pc = "euler_loop"
    /\ Len(flows) < StepBound(kwargs)
    /\ theta' = pilot_pitch_control(kwargs.k_p, theta_trim, kwargs.v_ref, v_ias, h,
                                    kwargs.cruise_mach, kwargs.phase)
    /\ aoa' = AngleOfAttack(theta', gamma)
    /\ c_l' = LiftCoeff(aoa')
    /\ inst_lift' = MulDiv(HalfRhoSV2(Density(h), S, v_tas), c_l', Unit)
    /\ inst_thrust' = AppliedThrust(h, mach, thrust_app_perc)
    /\ inst_drag' = drag(v_ias, h, c_l', S)
    /\ flows' = Append(flows, fuel_flow(inst_thrust', mach, h))
    /\ x' = x + Travel(v_tas, Cos(gamma), kwargs.time_step)
    /\ v_tas' = v_tas + inst_dv_dt(inst_thrust', inst_drag', w, gamma) * kwargs.time_step
    /\ h' = h + Travel(v_tas', Sin(gamma), kwargs.time_step)
    /\ IF ~AtmosphereOK(h')
       THEN /\ pc' = "raised"
            /\ exc' = "ValueError"
            /\ UNCHANGED <<v_ias, mach, gamma, m_f_burnt, w, t, res, files,
                           file_writes, result>>
       ELSE /\ v_ias' = tas2cas(v_tas', h')
            /\ mach' = cas2mach(v_ias', h')
            /\ gamma' = gamma + inst_dgamma_dt(inst_lift', w, v_tas) * kwargs.time_step
            /\ m_f_burnt' = FuelBurnt(m_f_burnt, FuelMassChange(Last(flows'), kwargs.time_step))
            /\ w' = w + WeightChange(FuelMassChange(Last(flows'), kwargs.time_step))
            /\ t' = TimeAdvance(t, kwargs.time_step)
            /\ res' = [t |-> Append(res.t, t'),
                       x |-> Append(res.x, x'),
                       h |-> Append(res.h, h'),
                       v_tas |-> Append(res.v_tas, v_tas'),
                       v_ias |-> Append(res.v_ias, v_ias'),
                       mach |-> Append(res.mach, mach'),
                       gamma |-> Append(res.gamma, gamma'),
                       fuel_burn |-> Append(res.fuel_burn, m_f_burnt'),
                       aoa |-> Append(res.aoa, aoa'),
                       theta |-> Append(res.theta, theta')]
            /\ IF EulerStop(kwargs.phase, h')
               THEN /\ files' = serialize_and_write_results_file(
                                    files, res', kwargs.ics.w, kwargs.v_ref,
                                    kwargs.phase)
                    /\ file_writes' = file_writes + 1
                    /\ result' = res'
                    /\ pc' = "returned"
               ELSE /\ pc' = "euler_loop"
                    /\ UNCHANGED <<files, file_writes, result>>
            /\ exc' = exc
    /\ UNCHANGED <<shared, kwargs, theta_trim, thrust_app_perc, file_reads, sim_calls>>

\* lines 139-209: one iteration of the loop.  tas2cas raises when the new
\* altitude is outside the atmosphere model; the iteration that meets the stop
\* condition also writes the results file and returns
simulation_euler_step ==
    /\ pc = "euler_loop"
    /\ Len(flows) < StepBound(kwargs)
    /\ theta' = pilot_pitch_control(kwargs.k_p, theta_trim, kwargs.v_ref, v_ias, h,
                                    kwargs.cruise_mach, kwargs.phase)
    /\ aoa' = AngleOfAttack(theta', gamma)
    /\ c_l' = LiftCoeff(aoa')
    /\ inst_lift' = MulDiv(HalfRhoSV2(Density(h), S, v_tas), c_l', Unit)
    /\ inst_thrust' = AppliedThrust(h, mach, thrust_app_perc)
    /\ inst_drag' = drag(v_ias, h, c_l', S)
    /\ flows' = Append(flows, fuel_flow(inst_thrust', mach, h))
    /\ x' = x + Travel(v_tas, Cos(gamma), kwargs.time_step)
    /\ h' = h + Travel(v_tas, Sin(gamma), kwargs.time_step)
    /\ v_tas' = v_tas + inst_dv_dt(inst_thrust', inst_drag', w, gamma) * kwargs.time_step
    /\ IF ~AtmosphereOK(h')
       THEN /\ pc' = "raised"
            /\ exc' = "ValueError"
            /\ UNCHANGED <<v_ias, mach, gamma, m_f_burnt, w, t, res, files,
                           file_writes, result>>
       ELSE /\ v_ias' = tas2cas(v_tas', h')
            /\ mach' = cas2mach(v_ias', h')
            /\ gamma' = gamma + inst_dgamma_dt(inst_lift', w, v_tas) * kwargs.time_step
            /\ m_f_burnt' = FuelBurnt(m_f_burnt, FuelMassChange(Last(flows'), kwargs.time_step))
            /\ w' = w + WeightChange(FuelMassChange(Last(flows'), kwargs.time_step))
            /\ t' = TimeAdvance(t, kwargs.time_step)
            /\ res' = [t |-> Append(res.t, t'),
                       x |-> Append(res.x, x'),
                       h |-> Append(res.h, h'),
                       v_tas |-> Append(res.v_tas, v_tas'),
                       v_ias |-> Append(res.v_ias, v_ias'),
                       mach |-> Append(res.mach, mach'),
                       gamma |-> Append(res.gamma, gamma'),
                       fuel_burn |-> Append(res.fuel_burn, m_f_burnt'),
                       aoa |-> Append(res.aoa, aoa'),
                       theta |-> Append(res.theta, theta')]
            /\ IF EulerStop(kwargs.phase, h')
               THEN /\ files' = serialize_and_write_results_file(
                                    files, res', kwargs.ics.w, kwargs.v_ref,
                                    kwargs.phase)
                    /\ file_writes' = file_writes + 1
                    /\ result' = res'
                    /\ pc' = "returned"
               ELSE /\ pc' = "euler_loop"
                    /\ UNCHANGED <<files, file_writes, result>>
            /\ exc' = exc
    /\ UNCHANGED <<shared, kwargs, theta_trim, thrust_app_perc, file_reads, sim_calls>>

(***************************************************************************)
(* simulation_descent_approach_euler                                       *)
(***************************************************************************)
\* glideslope_angle.to("rad"), from degrees
DegToRad(deg) == MulDiv(deg, Pi, 180)

\* variant of ApproachInitialLists: "aoa", "theta" and "thrust" start with an
\* entry, as "aoa" and "theta" do in simulation_euler
ApproachInitialListsFilled(x0, h0, cas0, mach0) ==
    [t |-> <<0>>, x |-> <<x0>>, h |-> <<h0>>, v_ias |-> <<cas0>>,
     mach |-> <<mach0>>, fuel_burn |-> <<0>>, aoa |-> <<0>>, theta |-> <<0>>,
     thrust |-> <<0>>]

\* lines 229-240: res at t = 0; "aoa", "theta" and "thrust" are empty
ApproachInitialLists(x0, h0, cas0, mach0) ==
    [t |-> <<0>>, x |-> <<x0>>, h |-> <<h0>>, v_ias |-> <<cas0>>,
     mach |-> <<mach0>>, fuel_burn |-> <<0>>, aoa |-> <<>>, theta |-> <<>>,
     thrust |-> <<>>]

\* lines 216-240: the state and the result dictionary at t = 0
simulation_descent_approach_euler_init ==
    /\ pc = "simulation_descent_approach_euler"
    /\ IF ~AtmosphereOK(kwargs.ics.h)
       THEN Raise("ValueError")
       ELSE LET ics == kwargs.ics
            IN  /\ t' = 0
                /\ x' = ics.x
                /\ h' = ics.h
                /\ w' = ics.w
                /\ m_f_burnt' = 0
                /\ v_tas' = kwargs.v_ref
                /\ v_ias' = tas2cas(kwargs.v_ref, ics.h)
                /\ mach' = tas2mach(kwargs.v_ref, ics.h)
                /\ gamma' = -DegToRad(kwargs.glideslope_angle)
                /\ res' = ApproachInitialLists(ics.x, ics.h, v_ias', mach')
                /\ pc' = "approach_loop"
                /\ UNCHANGED <<shared, kwargs, files, theta_trim, thrust_app_perc, theta,
                               aoa, c_l, inst_lift, inst_thrust, inst_drag, result,
                               exc, file_reads, file_writes, sim_calls, flows>>

\* variant of ApproachStop: the loop goes on for 3 m below the screen height
ApproachStopLate(altitude, screen_h) == altitude <= screen_h - 300

\* lines 268-269: if h <= screen_h: break
ApproachStop(altitude, screen_h) == altitude <= screen_h

\* variant of SteadyThrust: the thrust of level flight, without the weight
\* component along the flight path
SteadyThrustLevel(d, weight, g) == d

\* line 251: inst_thrust = inst_drag + (w * np.sin(gamma))
SteadyThrust(d, weight, g) == d + MulDiv(weight, Sin(g), Unit)

\* lines 242-281: one iteration of the loop.  tas2mach raises when the new
\* altitude is outside the atmosphere model; the iteration that reaches the
\* screen height breaks before the state lists are appended, writes the
\* results file and returns
simulation_descent_approach_euler_step ==
    /\ pc = "approach_loop"
    /\ Len(flows) < MaxSteps
    /\ \E cas \in {tas2cas(v_tas, h)} :
        /\ aoa' = aoa_steady_staight(cas, h, w, S)
        /\ c_l' = c_l_steady(cas, h, w, S)
        /\ inst_drag' = drag(cas, h, c_l', S)
    /\ theta' = aoa' + gamma
    /\ inst_thrust' = SteadyThrust(inst_drag', w, gamma)
    /\ flows' = Append(flows, fuel_flow(inst_thrust', mach, h))
    /\ h' = h + Travel(v_tas, Sin(gamma), kwargs.time_step)
    /\ x' = x + Travel(v_tas, Cos(gamma), kwargs.time_step)
    /\ m_f_burnt' = FuelBurnt(m_f_burnt, FuelMassChange(Last(flows'), kwargs.time_step))
    /\ w' = w + WeightChange(FuelMassChange(Last(flows'), kwargs.time_step))
    /\ t' = TimeAdvance(t, kwargs.time_step)
    /\ IF ~AtmosphereOK(h')
       THEN /\ pc' = "raised"
            /\ exc' = "ValueError"
            /\ res' = [res EXCEPT !.aoa = Append(@, aoa'),
                                  !.theta = Append(@, theta'),
                                  !.thrust = Append(@, inst_thrust')]
            /\ UNCHANGED <<mach, files, file_writes, result>>
       ELSE /\ mach' = tas2mach(v_tas, h')
            /\ IF ApproachStop(h', kwargs.screen_h)
               THEN /\ res' = [res EXCEPT !.aoa = Append(@, aoa'),
                                          !.theta = Append(@, theta'),
                                          !.thrust = Append(@, inst_thrust')]
                    /\ files' = serialize_and_write_results_file(
                                    files, res', kwargs.ics.w, kwargs.v_ref,
                                    kwargs.phase)
                    /\ file_writes' = file_writes + 1
                    /\ result' = res'
                    /\ pc' = "returned"
               ELSE /\ res' = [res EXCEPT !.aoa = Append(@, aoa'),
                                          !.theta = Append(@, theta'),
                                          !.thrust = Append(@, inst_thrust'),
                                          !.t = Append(@, t'),
                                          !.x = Append(@, x'),
                                          !.h = Append(@, h'),
                                          !.v_ias = Append(@, tas2cas(v_tas, h')),
                                          !.mach = Append(@, mach'),
                                          !.fuel_burn = Append(@, m_f_burnt')]
                    /\ pc' = "approach_loop"
                    /\ UNCHANGED <<files, file_writes, result>>
            /\ exc' = exc
    /\ UNCHANGED <<shared, kwargs, v_tas, v_ias, gamma, theta_trim, thrust_app_perc,
                   inst_lift, file_reads, sim_calls>>

(***************************************************************************)
(* load_or_run_simulation                                                  *)
(***************************************************************************)
\* variant of ResultsFilePath: v_ref enters the file name as it is, unrounded
ResultsFilePathUnrounded(phase, ics, v_ref) ==
    <<phase, RoundHalfEven(ics.w, 1), v_ref>>

\* variant of ResultsFilePath: the initial altitude is part of the file name
ResultsFilePathWithAltitude(phase, ics, v_ref) ==
    <<phase, RoundHalfEven(ics.w, 1), RoundHalfEven(v_ref, 10000), ics.h>>

\* lines 320-324: file_path of the results file to look for
ResultsFilePath(phase, ics, v_ref) ==
    <<phase, RoundHalfEven(ics.w, 1), RoundHalfEven(v_ref, 10000)>>

\* variant of PhaseIsValid: the phase is not checked
PhaseIsValidLax(phase) == TRUE

\* if kwargs["phase"] not in ["climb", "descent", "descent_approach"]: raise
PhaseIsValid(phase) == phase \in ValidPhases

\* lines 308-342: validate the phase, then load the stored results of the key
\* or invoke the simulation
load_or_run_simulation ==
    /\ pc = "load_or_run_simulation"
    /\ IF ~PhaseIsValid(kwargs.phase)
       THEN Raise("ValueError")
       ELSE LET key == ResultsFilePath(kwargs.phase, kwargs.ics, kwargs.v_ref)
            IN  IF key \in DOMAIN files
                THEN /\ file_reads' = file_reads + 1
                     /\ result' = files[key]
                     /\ pc' = "returned"
                     /\ UNCHANGED <<shared, kwargs, files, locals, theta_trim,
                                    thrust_app_perc, res, exc, file_writes,
                                    sim_calls, flows>>
                ELSE /\ sim_calls' = sim_calls + 1
                     /\ pc' = kwargs.simulation
                     /\ UNCHANGED <<shared, kwargs, files, locals, theta_trim,
                                    thrust_app_perc, res, result, exc, file_reads,
                                    file_writes, flows>>

\* calls with the key of the climb call of LoadOrRunCalls (climb, 3000000 N,
\* 150 m/s) that differ from it in one argument outside the key, and one that
\* differs in all of them
SameKeyCalls ==
    LET c == Call("load_or_run_simulation", "simulation_euler", "climb",
                  IcsTopOfClimb, 2, 1500000, 3)
    IN  { [c EXCEPT !.ics.h = 990000],
          [c EXCEPT !.ics.x = 100000],
          [c EXCEPT !.ics.v_ias = 1400000],
          [c EXCEPT !.time_step = 1],
          [c EXCEPT !.k_p = 100],
          [c EXCEPT !.cruise_mach = 800],
          [c EXCEPT !.glideslope_angle = 6],
          [c EXCEPT !.screen_h = 1500],
          [c EXCEPT !.ics = [x |-> 100000, h |-> 990000, w |-> 3000000,
                             v_ias |-> 1400000],
                    !.time_step = 1, !.k_p = 100, !.cruise_mach = 800,
                    !.glideslope_angle = 6, !.screen_h = 1500] }

\* calls of load_or_run_simulation that follow an earlier one in the same
\* directory: the same arguments again, the same key with other arguments,
\* and another key
LaterCalls ==
    { c \in LoadOrRunCalls : c.phase \in {"climb", "descent_approach"} }
    \cup
    { Call("load_or_run_simulation", "simulation_euler", "climb", IcsTopOfClimb, 1,
           vr, 3) : vr \in {1502000, 1510000} }
    \cup SameKeyCalls

\* the caller calls load_or_run_simulation again after a call has returned;
\* the directory is kept, the locals are those of the new call
later_call ==
    /\ kwargs.entry = "load_or_run_simulation"
    /\ pc = "returned"
    /\ kwargs' \in LaterCalls
    /\ pc' = "load_or_run_simulation"
    /\ t' = 0 /\ x' = 0 /\ h' = 0 /\ w' = 0 /\ m_f_burnt' = 0
    /\ v_tas' = 0 /\ v_ias' = 0 /\ mach' = 0 /\ gamma' = 0
    /\ theta_trim' = 0 /\ thrust_app_perc' = 0
    /\ theta' = 0 /\ aoa' = 0 /\ c_l' = 0
    /\ inst_lift' = 0 /\ inst_thrust' = 0 /\ inst_drag' = 0
    /\ res' = <<>>
    /\ result' = <<>>
    /\ exc' = ""
    /\ file_reads' = 0 /\ file_writes' = 0 /\ sim_calls' = 0
    /\ flows' = <<>>
    /\ UNCHANGED <<files, shared>>

(***************************************************************************)
(* thrust_model.fuel_flow called on its own                                *)
(***************************************************************************)
fuel_flow_call ==
    /\ pc = "fuel_flow"
    /\ IF ~AtmosphereOK(kwargs.h)
       THEN Raise("ValueError")
       ELSE /\ result' = fuel_flow(kwargs.thrust, kwargs.mach, kwargs.h)
            /\ pc' = "returned"
            /\ UNCHANGED <<shared, kwargs, files, locals, theta_trim, thrust_app_perc, res,
                           exc, file_reads, file_writes, sim_calls, flows>>

max_thrust_model_call ==
    /\ pc = "max_thrust_model"
    /\ IF ~AtmosphereOK(kwargs.h)
       THEN Raise("ValueError")
       ELSE /\ result' = max_thrust_model(kwargs.thrust_max_sl, kwargs.bpr,
                                          kwargs.h, kwargs.mach)
            /\ pc' = "returned"
            /\ UNCHANGED <<shared, kwargs, files, locals, theta_trim, thrust_app_perc, res,
                           exc, file_reads, file_writes, sim_calls, flows>>

\* cas2tas(v_cas, h), of which the v_tas is handed to tas2cas in one of the
\* next steps
cas2tas_call ==
    /\ pc = "cas2tas"
    /\ IF ~AtmosphereOK(kwargs.h)
       THEN Raise("ValueError")
       ELSE /\ v_tas' = cas2tas(kwargs.v_cas, kwargs.h)
            /\ pc' = "tas2cas"
            /\ UNCHANGED <<shared, kwargs, files, t, x, h, w, m_f_burnt, v_ias, mach,
                           gamma, theta, aoa, c_l, inst_lift, inst_thrust,
                           inst_drag, theta_trim, thrust_app_perc, res, result,
                           exc, file_reads, file_writes, sim_calls, flows>>

\* tas2cas(v_tas, h) on the true airspeed that cas2tas returned
tas2cas_call ==
    /\ pc = "tas2cas"
    /\ result' = tas2cas(v_tas, kwargs.h)
    /\ pc' = "returned"
    /\ UNCHANGED <<shared, kwargs, files, locals, theta_trim, thrust_app_perc, res,
                   exc, file_reads, file_writes, sim_calls, flows>>

Next ==
    \/ fuel_flow_call
    \/ cas2tas_call
    \/ tas2cas_call
    \/ max_thrust_model_call
    \/ load_or_run_simulation
    \/ later_call
    \/ simulation_euler_init
    \/ simulation_euler_step
    \/ simulation_descent_approach_euler_init
    \/ simulation_descent_approach_euler_step

Spec == Init /\ [][Next]_vars

(***************************************************************************)
(* Two runs executing at the same time in one working directory.  The      *)
(* integrators work on locals only, so a run's trajectory is a function of *)
(* its arguments; the runs meet in the file system: os.path.exists,        *)
(* os.makedirs, open and json.dump / json.load are separate steps.         *)
(***************************************************************************)
Procs == {1, 2}

\* the state of the single call, which does not move here
sequential == <<kwargs, files, pc, locals, theta_trim, thrust_app_perc, res,
                result, exc, file_reads, file_writes, sim_calls, flows>>

\* arguments of the two runs: two initial conditions of one key and one of
\* another key, called directly or through load_or_run_simulation
ConcurrentCalls ==
    { Call(e, "simulation_euler", "climb", ic, 2, 1500000, 3) :
        e \in SimulationEntries,
        ic \in {IcsTopOfClimb, IcsLowDescent, IcsSeaLevel} }

\* the result dictionary that simulation(**kwargs) computes from its arguments
Trajectory(call) ==
    <<"trajectory", call.simulation, call.phase, call.ics, call.time_step,
      call.v_ref>>

\* content of a file that open(file_path, "w") has created or truncated
EmptyFile == <<>>

\* the file name a run of these arguments writes
WrittenFile(call) == FileKey(call.phase, call.ics.w, call.v_ref)

InitConcurrent ==
    /\ procs \in [Procs -> { [pc |-> IF c.entry = "direct" THEN "run" ELSE "lookup",
                              call |-> c, result |-> <<>>, exc |-> ""] :
                            c \in ConcurrentCalls }]
    /\ directory \in { [exists |-> e, files |-> <<>>] : e \in BOOLEAN }
    /\ kwargs = <<>> /\ files = <<>> /\ pc = "concurrent"
    /\ t = 0 /\ x = 0 /\ h = 0 /\ w = 0 /\ m_f_burnt = 0
    /\ v_tas = 0 /\ v_ias = 0 /\ mach = 0 /\ gamma = 0
    /\ theta_trim = 0 /\ thrust_app_perc = 0
    /\ theta = 0 /\ aoa = 0 /\ c_l = 0
    /\ inst_lift = 0 /\ inst_thrust = 0 /\ inst_drag = 0
    /\ res = <<>> /\ result = <<>> /\ exc = ""
    /\ file_reads = 0 /\ file_writes = 0 /\ sim_calls = 0
    /\ flows = <<>>

\* the file of this name after content has been put in it
WithFile(dir, name, content) ==
    [dir EXCEPT !.files = [k \in DOMAIN dir.files \cup {name} |->
                              IF k = name THEN content ELSE dir.files[k]]]

\* line 327: os.path.exists(file_path)
concurrent_lookup ==
    \E p \in Procs :
        /\ procs[p].pc = "lookup"
        /\ procs' = [procs EXCEPT ![p].pc =
                IF ResultsFilePath(procs[p].call.phase, procs[p].call.ics,
                                   procs[p].call.v_ref) \in DOMAIN directory.files
                THEN "load" ELSE "run"]
        /\ UNCHANGED <<directory, sequential>>

\* lines 329-334: open(file_path, "r") and json.load, which raises
\* JSONDecodeError on a file that holds nothing yet
concurrent_load ==
    \E p \in Procs :
        /\ procs[p].pc = "load"
        /\ LET stored == directory.files[ResultsFilePath(procs[p].call.phase,
                              procs[p].call.ics, procs[p].call.v_ref)]
           IN  procs' = IF stored = EmptyFile
                        THEN [procs EXCEPT ![p].pc = "raised",
                                           ![p].exc = "JSONDecodeError"]
                        ELSE [procs EXCEPT ![p].pc = "returned",
                                           ![p].result = stored]
        /\ UNCHANGED <<directory, sequential>>

\* lines 102-205 (called at line 339): the integration, on locals only
concurrent_run ==
    \E p \in Procs :
        /\ procs[p].pc = "run"
        /\ procs' = [procs EXCEPT ![p].pc = "exists",
                                  ![p].result = Trajectory(procs[p].call)]
        /\ UNCHANGED <<directory, sequential>>

\* line 52: if not os.path.exists(directory)
concurrent_exists ==
    \E p \in Procs :
        /\ procs[p].pc = "exists"
        /\ procs' = [procs EXCEPT ![p].pc =
                IF directory.exists THEN "open" ELSE "makedirs"]
        /\ UNCHANGED <<directory, sequential>>

\* line 53: os.makedirs(directory), which raises FileExistsError when the
\* directory is there
concurrent_makedirs ==
    \E p \in Procs :
        /\ procs[p].pc = "makedirs"
        /\ IF directory.exists
           THEN /\ procs' = [procs EXCEPT ![p].pc = "raised",
                                          ![p].exc = "FileExistsError"]
                /\ UNCHANGED directory
           ELSE /\ directory' = [directory EXCEPT !.exists = TRUE]
                /\ procs' = [procs EXCEPT ![p].pc = "open"]
        /\ UNCHANGED sequential

\* line 56: open(file_path, "w") creates or truncates the file
concurrent_open ==
    \E p \in Procs :
        /\ procs[p].pc = "open"
        /\ directory' = WithFile(directory, WrittenFile(procs[p].call), EmptyFile)
        /\ procs' = [procs EXCEPT ![p].pc = "dump"]
        /\ UNCHANGED sequential

\* lines 57 and 209: json.dump, close, return res
concurrent_dump ==
    \E p \in Procs :
        /\ procs[p].pc = "dump"
        /\ directory' = WithFile(directory, WrittenFile(procs[p].call),
                                 procs[p].result)
        /\ procs' = [procs EXCEPT ![p].pc = "returned"]
        /\ UNCHANGED sequential

NextConcurrent ==
    \/ concurrent_lookup
    \/ concurrent_load
    \/ concurrent_run
    \/ concurrent_exists
    \/ concurrent_makedirs
    \/ concurrent_open
    \/ concurrent_dump

SpecConcurrent == InitConcurrent /\ [][NextConcurrent]_vars

(***************************************************************************)
(* The long climb on its own                                               *)
(***************************************************************************)
InitClimb ==
    /\ kwargs \in ClimbCalls
    /\ files = <<>>
    /\ pc = kwargs.simulation
    /\ t = 0 /\ x = 0 /\ h = 0 /\ w = 0 /\ m_f_burnt = 0
    /\ v_tas = 0 /\ v_ias = 0 /\ mach = 0 /\ gamma = 0
    /\ theta_trim = 0 /\ thrust_app_perc = 0
    /\ theta = 0 /\ aoa = 0 /\ c_l = 0
    /\ inst_lift = 0 /\ inst_thrust = 0 /\ inst_drag = 0
    /\ res = <<>>
    /\ result = <<>>
    /\ exc = ""
    /\ file_reads = 0 /\ file_writes = 0 /\ sim_calls = 0
    /\ flows = <<>>
    /\ procs = <<>>
    /\ directory = <<>>

NextClimb ==
    \/ simulation_euler_init
    \/ simulation_euler_step

SpecClimb == InitClimb /\ [][NextClimb]_vars

(***************************************************************************)
(* Properties                                                              *)
(***************************************************************************)
\* the call runs simulation_euler, directly or through load_or_run_simulation
IsEulerRun ==
    kwargs.entry \in SimulationEntries /\ kwargs.simulation = "simulation_euler"

\* the call runs simulation_descent_approach_euler
IsApproachRun ==
    /\ kwargs.entry \in SimulationEntries
    /\ kwargs.simulation = "simulation_descent_approach_euler"

\* simulation_euler has run its loop and returned its result dictionary
EulerReturned == IsEulerRun /\ pc = "returned" /\ Len(flows) > 0

\* simulation_descent_approach_euler has run its loop and returned
ApproachReturned == IsApproachRun /\ pc = "returned" /\ Len(flows) > 0

\* an integration loop is about to run an iteration
InLoop == pc \in {"euler_loop", "approach_loop"}

\* sum of |fuel_flow * dt| over the first n iterations of the loop
RECURSIVE SumAbsFlow(_)
SumAbsFlow(n) ==
    IF n = 0 THEN 0 ELSE SumAbsFlow(n - 1) + Abs(flows[n] * kwargs.time_step)

\* C1: a climb run of simulation_euler started below 10000 m does not end in
\* an exception, and when it has returned, the last altitude of the
\* trajectory is at least 10000 m
ClimbEndsAtCruiseAltitude ==
    (IsEulerRun /\ kwargs.phase = "climb" /\ kwargs.ics.h < ClimbStopAltitude)
        => /\ pc # "raised"
           /\ EulerReturned => Last(res.h) >= ClimbStopAltitude

\* C2: a descent run of simulation_euler started above 1000 m does not end in
\* an exception, and when it has returned, the last altitude of the
\* trajectory is at most 1000 m
DescentEndsAtStopAltitude ==
    (IsEulerRun /\ kwargs.phase = "descent" /\ kwargs.ics.h > DescentStopAltitude)
        => /\ pc # "raised"
           /\ EulerReturned => Last(res.h) <= DescentStopAltitude

\* C3: in both integrators the weight after an iteration of the loop is at
\* most the weight before it, whatever the sign of the thrust
WeightNeverIncreases == [][InLoop => w' <= w]_vars

\* C4: when simulation_euler returns, fuel_burn has one entry per iteration
\* plus the initial one, entry i is the sum of |fuel_flow * dt| over the first
\* i iterations, and so the last entry is the sum over all iterations
EulerFuelBurnIsRunningSum ==
    EulerReturned
        => /\ Len(res.fuel_burn) = Len(flows) + 1
           /\ \A i \in 0..Len(flows) : res.fuel_burn[i + 1] = SumAbsFlow(i)
           /\ Last(res.fuel_burn) = SumAbsFlow(Len(flows))

EulerFuelBurnWitness ==
    /\ EulerReturned
    /\ Len(flows) >= 3
    /\ kwargs.time_step = 2
    /\ res.fuel_burn[2] > 0
    /\ Last(res.fuel_burn) > res.fuel_burn[2]

\* C5 as stated: when simulation_descent_approach_euler returns, the last
\* entry of fuel_burn is the sum of |fuel_flow * dt| over all iterations,
\* the one that reached the screen height included
ApproachFuelBurnCountsLastStep ==
    ApproachReturned => Last(res.fuel_burn) = SumAbsFlow(Len(flows))

\* C5 amended: when simulation_descent_approach_euler returns, fuel_burn has
\* one entry per iteration, entry i is the sum of |fuel_flow * dt| over the
\* iterations before the i-th, and so the last entry is the sum over all
\* iterations except the one that reached the screen height
ApproachFuelBurnOmitsLastStep ==
    ApproachReturned
        => /\ Len(res.fuel_burn) = Len(flows)
           /\ \A i \in 1..Len(flows) : res.fuel_burn[i] = SumAbsFlow(i - 1)
           /\ Last(res.fuel_burn) = SumAbsFlow(Len(flows) - 1)

ApproachFuelBurnWitness ==
    /\ ApproachReturned
    /\ Len(flows) >= 3
    /\ Last(res.fuel_burn) > 0
    /\ m_f_burnt > Last(res.fuel_burn)

\* C6: fuel_flow returns a non-negative flow rate for every thrust, a
\* negative thrust included
FuelFlowNonNegative ==
    (kwargs.entry = "fuel_flow" /\ pc = "returned") => result >= 0

\* C7: in both integrators the cumulative fuel burned never decreases over an
\* iteration, and an iteration that completes adds the absolute value of its
\* fuel mass change, whatever the sign of the thrust
FuelBurnedNeverDecreases ==
    [][InLoop =>
        /\ m_f_burnt' >= m_f_burnt
        /\ pc' # "raised" =>
             m_f_burnt' = m_f_burnt + Abs(Last(flows') * kwargs.time_step)]_vars

FuelBurnedWitness ==
    /\ pc = "approach_loop"
    /\ Len(flows) >= 2
    /\ Last(flows) < 0
    /\ inst_thrust < 0
    /\ kwargs.time_step > 0
    /\ m_f_burnt > 0

\* C8: simulation_euler called with a phase that is neither "climb" nor
\* "descent" executes no iteration of the loop and raises ValueError
EulerRejectsUnknownPhase ==
    (kwargs.entry = "direct" /\ kwargs.simulation = "simulation_euler"
        /\ kwargs.phase \notin {"climb", "descent"})
        => /\ Len(flows) = 0
           /\ pc \in {"simulation_euler", "raised"}
           /\ pc = "raised" => exc = "ValueError"

\* C9: load_or_run_simulation called with a phase outside climb, descent and
\* descent_approach raises ValueError without reading a results file, without
\* invoking the simulation, and without creating or changing a file
LoadOrRunRejectsUnknownPhase ==
    (kwargs.entry = "load_or_run_simulation" /\ kwargs.phase \notin ValidPhases)
        => /\ file_reads = 0
           /\ file_writes = 0
           /\ sim_calls = 0
           /\ Len(flows) = 0
           /\ files \in InitialFiles(kwargs)
           /\ pc \in {"load_or_run_simulation", "raised"}
           /\ pc = "raised" => exc = "ValueError"

LoadOrRunRejectsWitness ==
    /\ kwargs.entry = "load_or_run_simulation"
    /\ kwargs.phase \notin ValidPhases
    /\ pc = "raised"
    /\ exc = "ValueError"
    /\ files # <<>>

\* C10: the trajectory returned by simulation_euler has ten lists of the same
\* length, the number of iterations plus one; the first time entry is 0; and
\* for a positive time step t[i] = i * dt, strictly increasing
EulerTrajectoryShape ==
    EulerReturned
        => /\ \A key \in {"t", "x", "h", "v_tas", "v_ias", "mach", "gamma",
                          "fuel_burn", "aoa", "theta"} :
                Len(res[key]) = Len(flows) + 1
           /\ DOMAIN res = {"t", "x", "h", "v_tas", "v_ias", "mach", "gamma",
                            "fuel_burn", "aoa", "theta"}
           /\ res.t[1] = 0
           /\ kwargs.time_step > 0 =>
                /\ \A i \in 0..Len(flows) : res.t[i + 1] = i * kwargs.time_step
                /\ \A i \in 1..Len(flows) : res.t[i] < res.t[i + 1]

EulerTrajectoryWitness ==
    /\ EulerReturned
    /\ Len(flows) >= 3
    /\ kwargs.time_step = 2
    /\ Len(res.t) = Len(flows) + 1
    /\ Last(res.t) = 2 * Len(flows)

\* C11: in a run of either integrator an iteration that stays in the loop
\* writes no file, and the iteration that ends the loop and returns writes
\* the results file once, after the loop: the file of the run's key then
\* holds the returned trajectory and no other file has changed
FileWrittenOnceAfterLoop ==
    [][InLoop =>
        IF pc' = "returned"
        THEN /\ file_writes = 0 /\ file_writes' = 1
             /\ DOMAIN files' =
                  DOMAIN files \cup {FileKey(kwargs.phase, kwargs.ics.w, kwargs.v_ref)}
             /\ files'[FileKey(kwargs.phase, kwargs.ics.w, kwargs.v_ref)] = result'
             /\ result' = res'
             /\ \A k \in DOMAIN files :
                  k = FileKey(kwargs.phase, kwargs.ics.w, kwargs.v_ref)
                      \/ files'[k] = files[k]
        ELSE file_writes' = 0 /\ files' = files]_vars

FileWrittenWitness ==
    /\ ApproachReturned
    /\ kwargs.entry = "direct"
    /\ Len(flows) >= 3
    /\ file_writes = 1
    /\ files # <<>>

ConcurrentRunsAreIndependent ==
    (\A p, q \in DOMAIN procs :
        p # q => WrittenFile(procs[p].call) # WrittenFile(procs[q].call))
    => \A p \in DOMAIN procs :
        /\ procs[p].pc # "raised"
        /\ procs[p].pc = "returned"
              => procs[p].result = Trajectory(procs[p].call)
        /\ (\A q \in DOMAIN procs : procs[q].pc = "returned")
              => /\ WrittenFile(procs[p].call) \in DOMAIN directory.files
                 /\ directory.files[WrittenFile(procs[p].call)]
                        = Trajectory(procs[p].call)

\* C14: max_thrust_model(thrust_sl, bpr = 5, h = 0, mach = 0) returns
\* thrust_sl: at sea level the pressure ratio is 1, a = 1 and both Mach terms
\* vanish
MaxThrustAtSeaLevelStatic ==
    (kwargs.entry = "max_thrust_model" /\ pc = "returned"
        /\ kwargs.bpr = 5 /\ kwargs.h = 0 /\ kwargs.mach = 0)
    => result = kwargs.thrust_max_sl

MaxThrustWitness ==
    /\ kwargs.entry = "max_thrust_model" /\ pc = "returned"
    /\ kwargs.bpr = 5 /\ kwargs.h = 0 /\ kwargs.mach = 0
    /\ kwargs.thrust_max_sl = Max_Thrust_SE_SL
    /\ result = Max_Thrust_SE_SL

\* C15: for a subsonic airspeed v at an altitude h from sea level upwards,
\* tas2cas(cas2tas(v, h), h) differs from v by at most 0.01 m/s, the
\* tolerance of the two roundings to 2 decimals
RoundTripTolerance == 100

MachNoise == 10

RoundedMach(n) == RoundHalfEven(res.mach[n], 10) * 10

\* the pitch that k_p gives for a speed target, from record n of the trajectory
PitchFor(target, n) ==
    MulDiv(res.v_ias[n] - target, kwargs.k_p, 100) + theta_trim

\* the CAS of the cruise Mach number at the altitude of record n
CruiseMachCas(n) ==
    tas2cas(MulDiv(kwargs.cruise_mach, SpeedOfSound(res.h[n]), 1000), res.h[n])

\* C17: the pitch command of every step of a climb is k_p * error + theta_trim
\* with an error chosen from the current state alone: v_ias - v_ref when the
\* current Mach number rounded to 2 decimals is below cruise_mach, v_ias minus
\* the CAS of cruise_mach at the current altitude otherwise, whichever target
\* the steps before have used
ClimbPitchFromCurrentMach ==
    [][(pc = "euler_loop" /\ kwargs.phase = "climb") =>
         theta' = MulDiv((IF RoundHalfEven(mach, 10) * 10 < kwargs.cruise_mach
                          THEN v_ias - kwargs.v_ref
                          ELSE v_ias - tas2cas(MulDiv(kwargs.cruise_mach,
                                                      SpeedOfSound(h), 1000), h)),
                         kwargs.k_p, 100) + theta_trim]_vars

\* a climb that has gone over to the Mach target and, when the Mach number
\* fell again, back to v_ref
ClimbPitchWitness ==
    /\ IsEulerRun /\ kwargs.phase = "climb" /\ pc = "euler_loop"
    /\ Len(flows) > 0
    /\ \E i \in 1..(Len(res.theta) - 2) :
         /\ RoundedMach(i) >= kwargs.cruise_mach
         /\ res.theta[i + 1] = PitchFor(CruiseMachCas(i), i)
         /\ res.theta[i + 1] # PitchFor(kwargs.v_ref, i)
         /\ RoundedMach(i + 1) < kwargs.cruise_mach
         /\ res.theta[i + 2] = PitchFor(kwargs.v_ref, i + 1)
         /\ res.theta[i + 2] # PitchFor(CruiseMachCas(i + 1), i + 1)

\* the IAS of record n of the trajectory, rounded to whole m/s
RoundedIas(n) == RoundHalfEven(res.v_ias[n], 10000) * 10000

\* C18: the pitch command of every step of a descent is
\* k_p * (v_ias - target) + theta_trim, where the target is the CAS of the
\* cruise Mach number at the current altitude when the current IAS rounded to
\* whole m/s is below v_ref, and v_ref otherwise
DescentPitchFromCurrentIas ==
    [][(pc = "euler_loop" /\ kwargs.phase = "descent") =>
         theta' = MulDiv(v_ias - (IF RoundHalfEven(v_ias, 10000) * 10000 < kwargs.v_ref
                                  THEN tas2cas(MulDiv(kwargs.cruise_mach,
                                                      SpeedOfSound(h), 1000), h)
                                  ELSE kwargs.v_ref),
                         kwargs.k_p, 100) + theta_trim]_vars

\* a descent that has used v_ref as its target in one step and the CAS of the
\* cruise Mach number in another
DescentPitchWitness ==
    /\ IsEulerRun /\ kwargs.phase = "descent" /\ pc \in {"euler_loop", "returned"}
    /\ Len(flows) > 0
    /\ \E i \in 1..(Len(res.theta) - 1) :
         /\ RoundedIas(i) < kwargs.v_ref
         /\ res.theta[i + 1] = PitchFor(CruiseMachCas(i), i)
         /\ res.theta[i + 1] # PitchFor(kwargs.v_ref, i)
    /\ \E j \in 1..(Len(res.theta) - 1) :
         /\ RoundedIas(j) >= kwargs.v_ref
         /\ res.theta[j + 1] = PitchFor(kwargs.v_ref, j)
         /\ res.theta[j + 1] # PitchFor(CruiseMachCas(j), j)

\* C19: every iteration of simulation_euler is an explicit Euler step: the
\* pitch command, the lift, the thrust, the drag and the increments of
\* altitude, true airspeed, gamma, fuel mass and distance are those of the
\* state at the start of the step, the state after the step is the state
\* before it plus the increments, and v_ias and Mach are those of the updated
\* true airspeed and altitude
EulerStepIsExplicit ==
    [][(IsEulerRun /\ pc = "euler_loop") =>
         /\ theta' = pilot_pitch_control(kwargs.k_p, theta_trim, kwargs.v_ref,
                                         v_ias, h, kwargs.cruise_mach, kwargs.phase)
         /\ aoa' = theta' - gamma
         /\ inst_lift' = MulDiv(HalfRhoSV2(Density(h), S, v_tas),
                                LiftCoeff(theta' - gamma), Unit)
         /\ inst_thrust' = AppliedThrust(h, mach, thrust_app_perc)
         /\ inst_drag' = drag(v_ias, h, LiftCoeff(theta' - gamma), S)
         /\ h' - h = Travel(v_tas, Sin(gamma), kwargs.time_step)
         /\ x' - x = Travel(v_tas, Cos(gamma), kwargs.time_step)
         /\ v_tas' - v_tas
              = inst_dv_dt(inst_thrust', inst_drag', w, gamma) * kwargs.time_step
         /\ pc' # "raised" =>
              /\ gamma' - gamma
                   = inst_dgamma_dt(inst_lift', w, v_tas) * kwargs.time_step
              /\ m_f_burnt' - m_f_burnt
                   = Abs(fuel_flow(inst_thrust', mach, h) * kwargs.time_step)
              /\ v_ias' = tas2cas(v_tas', h')
              /\ mach' = cas2mach(tas2cas(v_tas', h'), h')]_vars

\* a step has changed the true airspeed and the flight path angle, and the
\* altitude gained is that of the speed and angle before the step, not of
\* those after it
EulerStepWitness ==
    /\ IsEulerRun /\ pc = "euler_loop" /\ Len(flows) > 1
    /\ kwargs.time_step > 0
    /\ Last(res.h) - res.h[Len(res.h) - 1]
         = Travel(res.v_tas[Len(res.h) - 1], Sin(res.gamma[Len(res.h) - 1]),
                  kwargs.time_step)
    /\ Last(res.h) - res.h[Len(res.h) - 1]
         # Travel(Last(res.v_tas), Sin(res.gamma[Len(res.h) - 1]), kwargs.time_step)
    /\ Last(res.h) - res.h[Len(res.h) - 1]
         # Travel(Last(res.v_tas), Sin(Last(res.gamma)), kwargs.time_step)
    /\ v_ias = tas2cas(v_tas, h)
    /\ v_ias # tas2cas(res.v_tas[Len(res.h) - 1], res.h[Len(res.h) - 1])

\* C20: the loop of simulation_euler is left, and the trajectory returned,
\* exactly when the record appended last has reached the altitude of the
\* phase (at least 10000 m in climb, at most 1000 m in descent); every record
\* after the initial one and before the last is short of that altitude
EulerStopsAtThresholdRecord ==
    (IsEulerRun /\ pc \in {"euler_loop", "returned"} /\ Len(flows) > 0)
    => /\ \A i \in 2..(Len(res.h) - 1) :
            /\ kwargs.phase = "climb" => res.h[i] < 1000000
            /\ kwargs.phase = "descent" => res.h[i] > 100000
       /\ pc = "returned"
            <=> \/ kwargs.phase = "climb" /\ Last(res.h) >= 1000000
                \/ kwargs.phase = "descent" /\ Last(res.h) <= 100000
       /\ pc = "returned" => result = res /\ Len(res.h) = Len(flows) + 1

\* a climb of several steps has returned: its last record is at or above
\* 10000 m and the one before it is below
EulerStopsWitness ==
    /\ EulerReturned /\ kwargs.entry = "direct" /\ kwargs.phase = "climb"
    /\ Len(res.h) > 4
    /\ Last(res.h) >= 1000000
    /\ res.h[Len(res.h) - 1] < 1000000
    /\ res.h[Len(res.h) - 1] > res.h[1]

\* C21: the thrust of every step of simulation_euler is 4 times the maximum
\* thrust of one engine at the altitude and Mach number of the start of the
\* step, times 0.95 in a climb and 0.05 in a descent; the fraction,
\* theta_trim and the arguments v_ref, k_p and cruise_mach are the same
\* before and after every step
EulerThrustFraction ==
    [][(IsEulerRun /\ pc = "euler_loop") =>
         /\ kwargs.phase = "climb" =>
              inst_thrust' = MulDiv(4 * max_thrust_model(270000, 5, h, mach), 95, 100)
         /\ kwargs.phase = "descent" =>
              inst_thrust' = MulDiv(4 * max_thrust_model(270000, 5, h, mach), 5, 100)
         /\ kwargs.phase = "climb" => thrust_app_perc = 95
         /\ kwargs.phase = "descent" => thrust_app_perc = 5
         /\ thrust_app_perc' = thrust_app_perc
         /\ theta_trim' = theta_trim
         /\ kwargs'.v_ref = kwargs.v_ref
         /\ kwargs'.k_p = kwargs.k_p
         /\ kwargs'.cruise_mach = kwargs.cruise_mach]_vars

\* a descent of several steps, whose thrust falls from step to step with the
\* state while the fraction stays at 0.05
EulerThrustWitness ==
    /\ IsEulerRun /\ kwargs.phase = "descent" /\ pc = "euler_loop"
    /\ Len(flows) > 3
    /\ thrust_app_perc = 5
    /\ inst_thrust > 0
    /\ inst_thrust = MulDiv(4 * max_thrust_model(270000, 5, res.h[Len(res.h) - 1],
                                                 res.mach[Len(res.h) - 1]), 5, 100)
    /\ inst_thrust # MulDiv(4 * max_thrust_model(270000, 5, res.h[1], res.mach[1]),
                            5, 100)

\* C22: in every step of simulation_descent_approach_euler the flight-path
\* angle is minus the glideslope angle and the true airspeed is v_ref, before
\* and after the step; the pitch is the steady angle of attack plus the
\* flight-path angle (no control law enters it), and the thrust the step
\* records is the drag plus weight * sin(gamma) of the state the step started
\* from
ApproachSteadyDescent ==
    [][(IsApproachRun /\ pc = "approach_loop") =>
         /\ gamma = -MulDiv(kwargs.glideslope_angle, Pi, 180)
         /\ gamma' = gamma
         /\ v_tas = kwargs.v_ref
         /\ v_tas' = v_tas
         /\ theta' = aoa_steady_staight(tas2cas(v_tas, h), h, w, S) + gamma
         /\ inst_thrust' =
                drag(tas2cas(v_tas, h), h, c_l_steady(tas2cas(v_tas, h), h, w, S), S)
                + MulDiv(w, Sin(gamma), Unit)
         /\ res'.thrust = Append(res.thrust, inst_thrust')
         /\ res'.theta = Append(res.theta, theta')]_vars

\* an approach of several steps on a 3 degree glideslope, whose recorded
\* thrust is below the drag by the weight component
ApproachSteadyWitness ==
    /\ IsApproachRun /\ pc = "approach_loop"
    /\ Len(flows) > 2
    /\ kwargs.glideslope_angle = 3
    /\ kwargs.time_step > 0
    /\ gamma < 0
    /\ v_tas = kwargs.v_ref
    /\ Last(res.thrust) = inst_thrust
    /\ inst_thrust < inst_drag
    /\ inst_thrust > 0

\* C23: an approach run with positive v_ref, positive time step and a
\* glideslope strictly between 0 and 180 degrees loses the same positive
\* altitude v_ref * sin(glideslope) * dt in every step, and the step that
\* takes the altitude to the screen height or below is the one that ends the
\* loop with the run returning its trajectory
ApproachStopsAtScreenHeight ==
    (/\ IsApproachRun
     /\ kwargs.v_ref > 0 /\ kwargs.time_step > 0
     /\ kwargs.glideslope_angle > 0 /\ kwargs.glideslope_angle < 180
     /\ Len(flows) > 0)
    => /\ h = kwargs.ics.h
             - Len(flows) * Travel(kwargs.v_ref,
                                   Sin(DegToRad(kwargs.glideslope_angle)),
                                   kwargs.time_step)
       /\ Travel(kwargs.v_ref, Sin(DegToRad(kwargs.glideslope_angle)),
                 kwargs.time_step) > 0
       /\ (h <= kwargs.screen_h) <=> (pc = "returned")
       /\ pc \in {"approach_loop", "returned"}

\* C24: when simulation_descent_approach_euler returns, every altitude of the
\* result after the initial one is strictly above the screen height, the
\* altitude that ended the loop is at or below it, and the last recorded time
\* is one time step before the elapsed time at which the loop stopped
ApproachEndStateNotRecorded ==
    (IsApproachRun /\ pc = "returned" /\ Len(flows) > 0) =>
        /\ \A i \in 2..Len(result.h) : result.h[i] > kwargs.screen_h
        /\ h <= kwargs.screen_h
        /\ Last(result.t) = t - kwargs.time_step
        /\ Len(result.t) = Len(flows)

\* an approach that returned after several steps: its last record is above
\* the screen height and one time step old, the state that ended it is below
ApproachEndStateWitness ==
    /\ IsApproachRun /\ pc = "returned"
    /\ Len(result.h) > 3
    /\ kwargs.time_step > 0
    /\ h <= kwargs.screen_h
    /\ Last(result.h) > kwargs.screen_h
    /\ Last(result.t) < t

\* C25: before every iteration of the approach loop the six state lists are
\* one entry longer than "aoa", "theta" and "thrust" and end with the current
\* state, so the entry the iteration appends to "aoa", "theta" and "thrust"
\* has the index of the record it is computed from; when the run returns, all
\* nine lists have one entry per iteration
ApproachListsAlign ==
    [][(IsApproachRun /\ pc = "approach_loop") =>
         /\ \A k \in {"t", "x", "h", "v_ias", "mach", "fuel_burn"} :
                Len(res[k]) = Len(flows) + 1
         /\ \A k \in {"aoa", "theta", "thrust"} : Len(res[k]) = Len(flows)
         /\ Last(res.t) = t /\ Last(res.x) = x /\ Last(res.h) = h
         /\ Last(res.mach) = mach /\ Last(res.fuel_burn) = m_f_burnt
         /\ Last(res.v_ias) = tas2cas(v_tas, h)
         /\ res'.aoa = Append(res.aoa,
                              aoa_steady_staight(Last(res.v_ias), Last(res.h), w, S))
         /\ res'.theta = Append(res.theta, Last(res'.aoa) + gamma)
         /\ res'.thrust =
                Append(res.thrust,
                       drag(Last(res.v_ias), Last(res.h),
                            c_l_steady(Last(res.v_ias), Last(res.h), w, S), S)
                       + MulDiv(w, Sin(gamma), Unit))
         /\ pc' = "returned" =>
                /\ result' = res'
                /\ \A k \in DOMAIN result' : Len(result'[k]) = Len(flows')
                /\ DOMAIN result' = {"t", "x", "h", "v_ias", "mach", "fuel_burn",
                                     "aoa", "theta", "thrust"}]_vars

\* an approach that returned after several iterations with nine lists of one
\* length, the number of iterations
ApproachListsWitness ==
    /\ IsApproachRun /\ pc = "returned"
    /\ Len(flows) > 3
    /\ Len(result.aoa) = Len(flows)
    /\ Len(result.thrust) = Len(result.h)
    /\ Len(result.theta) = Len(result.fuel_burn)
    /\ result.aoa[1] # result.aoa[Len(flows)]

\* C26: in the trajectory of simulation_euler the initial record has
\* theta = aoa + gamma, and in every later record the pitch minus the angle
\* of attack is the flight-path angle of the record before it
EulerPitchLagsFlightPath ==
    (IsEulerRun /\ res # <<>>) =>
        /\ res.theta[1] = res.aoa[1] + res.gamma[1]
        /\ \A i \in 2..Len(res.theta) :
               res.theta[i] - res.aoa[i] = res.gamma[i - 1]
        /\ Len(res.theta) = Len(res.gamma) /\ Len(res.aoa) = Len(res.gamma)

\* a returned trajectory in which the pitch minus the angle of attack of a
\* later record differs from the flight-path angle of that record
EulerPitchLagWitness ==
    /\ EulerReturned
    /\ Len(result.theta) > 3
    /\ result.theta[3] - result.aoa[3] = result.gamma[2]
    /\ result.theta[3] - result.aoa[3] # result.gamma[3]
    /\ result.gamma[2] # result.gamma[1]

\* C27: at every step of simulation_euler and of
\* simulation_descent_approach_euler the weight lost since the start is the
\* gravitational acceleration times the fuel burned so far (to within the
\* rounding of one newton per step)
WeightLossIsFuelBurnt ==
    (kwargs.entry \in SimulationEntries /\ Len(flows) > 0) =>
        Abs((kwargs.ics.w - w) - WeightChange(m_f_burnt)) <= Len(flows)

\* the run starts at an altitude that already meets the stop condition of
\* its loop
StartsPastStop ==
    /\ kwargs.entry = "direct"
    /\ \/ /\ kwargs.simulation = "simulation_euler"
          /\ \/ kwargs.phase = "climb" /\ kwargs.ics.h >= 1000000
             \/ kwargs.phase = "descent" /\ kwargs.ics.h <= 100000
       \/ /\ kwargs.simulation = "simulation_descent_approach_euler"
          /\ kwargs.ics.h <= kwargs.screen_h

ReturnDependsOnKeyOnly ==
    [][(kwargs.entry = "load_or_run_simulation" /\ PhaseIsValid(kwargs.phase)) =>
        /\ (/\ pc = "load_or_run_simulation"
            /\ FileKey(kwargs.phase, kwargs.ics.w, kwargs.v_ref) \in DOMAIN files) =>
             /\ pc' = "returned"
             /\ result' = files[FileKey(kwargs.phase, kwargs.ics.w, kwargs.v_ref)]
             /\ sim_calls' = 0
             /\ Len(flows') = 0
             /\ files' = files
        /\ (/\ pc = "returned"
            /\ pc' = "load_or_run_simulation"
            /\ FileKey(kwargs'.phase, kwargs'.ics.w, kwargs'.v_ref)
                   = FileKey(kwargs.phase, kwargs.ics.w, kwargs.v_ref)) =>
             /\ FileKey(kwargs'.phase, kwargs'.ics.w, kwargs'.v_ref) \in DOMAIN files'
             /\ files'[FileKey(kwargs'.phase, kwargs'.ics.w, kwargs'.v_ref)] = result]_vars

\* a call that differs from the stored run in all eight arguments outside
\* the key has returned the stored trajectory, which starts at another
\* altitude than the call's, without a simulation
ReturnDependsWitness ==
    /\ kwargs.entry = "load_or_run_simulation"
    /\ pc = "returned"
    /\ file_reads = 1 /\ sim_calls = 0 /\ Len(flows) = 0
    /\ kwargs.ics.h = 990000 /\ kwargs.ics.x = 100000 /\ kwargs.ics.v_ias = 1400000
    /\ kwargs.time_step = 1 /\ kwargs.k_p = 100 /\ kwargs.cruise_mach = 800
    /\ kwargs.glideslope_angle = 6 /\ kwargs.screen_h = 1500
    /\ result.h[1] = 995000
    /\ Len(result.t) > 2

=============================================================================
